---- MODULE Spec2Model ----
(***************************************************************************)
(* Model of src/index.ts: the recursive repository fetch (getRepoFiles),   *)
(* the delimiter extraction (extractXMLFromResponse), the schema decoding  *)
(* (parseModelResponse), the branch-name slug and the publishing pipeline  *)
(* (createAutomatedPR).                                                    *)
(*                                                                         *)
(* Text is a sequence of one-character strings.  Host calls are recorded   *)
(* in the order they are issued, failed calls included.                    *)
(***************************************************************************)
EXTENDS Integers, Sequences, FiniteSets, TLC

\* ------------------------------------------------------------------ bounds
\* Largest number of entries (files, directories, other) in a repository tree.
MaxNodes == 4
\* Largest number of tokens a model reply is assembled from.
MaxTokens == 4
\* Largest number of <file> elements in a reply's <files> element.
MaxEdits == 2
\* Largest title length (characters) the slug rule is applied to.
MaxTitleLen == 4
\* Number of distinct clock readings Date.now() may return.
MaxClock == 2

VARIABLES
    tree,          \* the host's repository tree: [n, kind, parent]
    stack,         \* getRepoFiles activation records, innermost last
    repoFiles,     \* createAutomatedPR's repoFiles (line 132) once fetched
    errorLog,      \* paths reported by console.error at line 66, in order
    calls,         \* every external call issued, in order: [op, arg, ok]
    pc,            \* position of the run
    rawResponse,   \* generateText's text
    respFiles,     \* the edit list carried by the reply's <files> element
    respTitle,     \* the title carried by the reply's <pullRequest> element
    extracted,     \* result of extractXMLFromResponse: [ok, xml]
    files,         \* parsed edits (line 170)
    pr,            \* parsed pull-request metadata (line 170)
    newBranch,     \* derived branch name (line 178)
    wi,            \* index of the next edit the write loop handles
    errorMsg,      \* what the catch at line 221 logged; "" while nothing thrown
    slug1,         \* the slug rule applied once to title
    slug2          \* the slug rule applied to slug1

vars == <<tree, stack, repoFiles, errorLog, calls, pc, rawResponse, respFiles,
          respTitle, extracted, files, pr, newBranch, wi, errorMsg, slug1,
          slug2>>

fetchVars == <<tree, stack, repoFiles, errorLog>>
replyVars == <<rawResponse, respFiles, respTitle>>
parseVars == <<extracted, files, pr>>
pubVars == <<newBranch, wi>>
slugVars == <<slug1, slug2>>
\* everything getRepoFiles leaves alone
notFetch == <<rawResponse, respFiles, respTitle, extracted, files, pr,
              newBranch, wi, errorMsg, slug1, slug2>>

\* ------------------------------------------------------------ repository
\* item.type values the host returns; only "file" and "dir" are handled.
Kinds == {"file", "dir", "symlink"}

\* The root directory's path, getRepoFiles' default argument.
RootPath == 0

\* Trees with exactly n entries.  Entry i has a kind and a parent directory;
\* a parent is the root or an earlier directory, and a directory lists its
\* entries in increasing order, so every ordered tree shape is covered.
TreesOfSize(n) ==
    { [n |-> n, kind |-> k, parent |-> p] :
        <<k, p>> \in { x \in [1..n -> Kinds] \X [1..n -> 0..(n - 1)] :
                        \A i \in 1..n :
                            /\ x[2][i] < i
                            /\ x[2][i] # RootPath => x[1][x[2][i]] = "dir" } }

RECURSIVE SortedSeq(_)
SortedSeq(S) ==
    IF S = {} THEN <<>>
    ELSE LET m == CHOOSE x \in S : \A y \in S : x <= y
         IN <<m>> \o SortedSeq(S \ {m})

\* The listing repos.getContent returns for directory d.  The paths passed
\* are the root and entries of type "dir", for which the host answers with
\* an array, so the single-object arm of line 47 is not taken.
Listing(t, d) == SortedSeq({ i \in 1..t.n : t.parent[i] = d })

\* The RepoFile pushed at lines 56-60 for entry e (its decoded content is not
\* read by anything the model covers and is left out).
RepoFile(e) == [path |-> e, sha |-> e]

Call(op, arg, ok) == [op |-> op, arg |-> arg, ok |-> ok]

\* Mutant of StackAfterReturn: the callee's list is not spread into the
\* caller's (line 62 without the push).
StackAfterReturnDropping(stk) ==
    LET rest == SubSeq(stk, 1, Len(stk) - 1)
    IN IF rest = <<>> THEN <<>>
       ELSE [rest EXCEPT ![Len(rest)].pos = @ + 1]

\* return files (line 69): the callee's files are spread into the caller's
\* list (line 62) and the caller moves to its next entry; the outermost
\* return hands the list to createAutomatedPR (line 132).
StackAfterReturn(stk) ==
    LET top == stk[Len(stk)]
        rest == SubSeq(stk, 1, Len(stk) - 1)
    IN IF rest = <<>> THEN <<>>
       ELSE LET par == rest[Len(rest)]
            IN [rest EXCEPT ![Len(rest)] =
                   [par EXCEPT !.files = par.files \o top.files,
                               !.pos = par.pos + 1]]

ReturnFrame ==
    /\ stack' = StackAfterReturn(stack)
    /\ IF Len(stack) = 1
       THEN /\ repoFiles' = stack[1].files
            /\ pc' = "prompt"
       ELSE UNCHANGED <<repoFiles, pc>>

Top == stack[Len(stack)]
Entries == Listing(tree, Top.path)

\* lines 41-45: the listing succeeds
ListDirOk ==
    /\ pc = "fetch" /\ stack # <<>> /\ Top.pos = 0
    /\ calls' = Append(calls, Call("getContent", Top.path, TRUE))
    /\ stack' = [stack EXCEPT ![Len(stack)].pos = 1]
    /\ UNCHANGED <<tree, repoFiles, errorLog, pc, notFetch>>

\* lines 41-45 throw: caught at line 65, logged, files returned
ListDirFail ==
    /\ pc = "fetch" /\ stack # <<>> /\ Top.pos = 0
    /\ calls' = Append(calls, Call("getContent", Top.path, FALSE))
    /\ errorLog' = Append(errorLog, Top.path)
    /\ ReturnFrame
    /\ UNCHANGED <<tree, notFetch>>

\* lines 49-60: a file entry whose blob is fetched
BlobOk ==
    /\ pc = "fetch" /\ stack # <<>>
    /\ Top.pos >= 1 /\ Top.pos <= Len(Entries)
    /\ tree.kind[Entries[Top.pos]] = "file"
    /\ calls' = Append(calls, Call("getBlob", Entries[Top.pos], TRUE))
    /\ stack' = [stack EXCEPT
                    ![Len(stack)].files = Append(@, RepoFile(Entries[Top.pos])),
                    ![Len(stack)].pos = @ + 1]
    /\ UNCHANGED <<tree, repoFiles, errorLog, pc, notFetch>>

\* Mutant of BlobFail: the error is caught per entry, and the loop goes on
\* with the next entry.
BlobFailSkipsEntry ==
    /\ pc = "fetch" /\ stack # <<>>
    /\ Top.pos >= 1 /\ Top.pos <= Len(Entries)
    /\ tree.kind[Entries[Top.pos]] = "file"
    /\ calls' = Append(calls, Call("getBlob", Entries[Top.pos], FALSE))
    /\ errorLog' = Append(errorLog, Top.path)
    /\ stack' = [stack EXCEPT ![Len(stack)].pos = @ + 1]
    /\ UNCHANGED <<tree, repoFiles, pc, notFetch>>

\* lines 50-54 throw: caught at line 65 in this activation
BlobFail ==
    /\ pc = "fetch" /\ stack # <<>>
    /\ Top.pos >= 1 /\ Top.pos <= Len(Entries)
    /\ tree.kind[Entries[Top.pos]] = "file"
    /\ calls' = Append(calls, Call("getBlob", Entries[Top.pos], FALSE))
    /\ errorLog' = Append(errorLog, Top.path)
    /\ ReturnFrame
    /\ UNCHANGED <<tree, notFetch>>

\* lines 61-62: a directory entry starts a nested getRepoFiles
EnterDir ==
    /\ pc = "fetch" /\ stack # <<>>
    /\ Top.pos >= 1 /\ Top.pos <= Len(Entries)
    /\ tree.kind[Entries[Top.pos]] = "dir"
    /\ stack' = Append(stack, [path |-> Entries[Top.pos], pos |-> 0, files |-> <<>>])
    /\ UNCHANGED <<tree, repoFiles, errorLog, calls, pc, notFetch>>

\* lines 49, 61: an entry that is neither file nor dir is passed over
SkipOther ==
    /\ pc = "fetch" /\ stack # <<>>
    /\ Top.pos >= 1 /\ Top.pos <= Len(Entries)
    /\ tree.kind[Entries[Top.pos]] \notin {"file", "dir"}
    /\ stack' = [stack EXCEPT ![Len(stack)].pos = @ + 1]
    /\ UNCHANGED <<tree, repoFiles, errorLog, calls, pc, notFetch>>

\* line 47 loop exhausted, line 69
LoopDone ==
    /\ pc = "fetch" /\ stack # <<>>
    /\ Top.pos > Len(Entries)
    /\ ReturnFrame
    /\ UNCHANGED <<tree, errorLog, calls, notFetch>>

\* ------------------------------------------------- fetch: claims C5, C6, C10
FetchDone == pc # "fetch"

IsFetchCall(c) == c.op \in {"getContent", "getBlob"}

\* entries whose listing or blob fetch raised an error
FailedNodes == { calls[i].arg : i \in { j \in 1..Len(calls) :
                                       IsFetchCall(calls[j]) /\ ~calls[j].ok } }

FilesOf(t) == { i \in 1..t.n : t.kind[i] = "file" }

RECURSIVE Ancestors(_, _)
\* the directories on the way from entry e up to the root, the root included
Ancestors(t, e) ==
    IF e = RootPath THEN {}
    ELSE {t.parent[e]} \cup Ancestors(t, t.parent[e])

RECURSIVE DfsCalls(_, _)
\* the calls of an error-free depth-first walk of directory d: its listing,
\* then each entry in listing order, a subdirectory's walk in full before
\* the next sibling
DfsCalls(t, d) ==
    LET es == Listing(t, d)
        F[i \in 0..Len(es)] ==
            IF i = 0 THEN <<>>
            ELSE F[i - 1] \o
                 (IF t.kind[es[i]] = "file" THEN <<Call("getBlob", es[i], TRUE)>>
                  ELSE IF t.kind[es[i]] = "dir" THEN DfsCalls(t, es[i])
                  ELSE <<>>)
    IN <<Call("getContent", d, TRUE)>> \o F[Len(es)]

IsPrefix(s, u) == Len(s) <= Len(u) /\ SubSeq(u, 1, Len(s)) = s

Occurrences(s, x) == Cardinality({ i \in 1..Len(s) : s[i] = x })

\* C6: with no listing or blob error, the walk is depth-first and sequential
\* (the calls issued so far are a prefix of the depth-first walk), and the
\* finished fetch returns exactly the tree's N files, each exactly once.
C6_Complete ==
    FailedNodes = {} =>
        /\ IsPrefix(calls, DfsCalls(tree, RootPath))
        /\ FetchDone =>
            /\ calls = DfsCalls(tree, RootPath)
            /\ Len(repoFiles) = Cardinality(FilesOf(tree))
            /\ \A f \in FilesOf(tree) : Occurrences(repoFiles, RepoFile(f)) = 1

\* a finished error-free fetch of a tree with files in nested directories
C6_Witness ==
    /\ FetchDone /\ FailedNodes = {}
    /\ Len(repoFiles) >= 2
    /\ \E f \in FilesOf(tree) : tree.parent[f] # RootPath
    /\ \E f \in FilesOf(tree) : tree.parent[f] = RootPath

RECURSIVE PrefixFiles(_, _, _)
\* what getRepoFiles(d) returns when the calls for the entries in bad raise:
\* nothing if the listing raises; otherwise the files of the entries before
\* the first file entry of d whose blob fetch raises, a subdirectory
\* contributing whatever its own call returns
PrefixFiles(t, d, bad) ==
    LET es == Listing(t, d)
        stop == { i \in 1..Len(es) : t.kind[es[i]] = "file" /\ es[i] \in bad }
        last == IF stop = {} THEN Len(es)
                ELSE (CHOOSE i \in stop : \A j \in stop : i <= j) - 1
        F[i \in 0..Len(es)] ==
            IF i = 0 THEN <<>>
            ELSE F[i - 1] \o
                 (IF t.kind[es[i]] = "file" THEN <<RepoFile(es[i])>>
                  ELSE IF t.kind[es[i]] = "dir" THEN PrefixFiles(t, es[i], bad)
                  ELSE <<>>)
    IN IF d \in bad THEN <<>> ELSE F[last]

RECURSIVE Visited(_, _, _)
\* the entries for which a host call is issued under the same rule
Visited(t, d, bad) ==
    LET es == Listing(t, d)
        stop == { i \in 1..Len(es) : t.kind[es[i]] = "file" /\ es[i] \in bad }
        last == IF stop = {} THEN Len(es)
                ELSE CHOOSE i \in stop : \A j \in stop : i <= j
    IN IF d \in bad THEN {d}
       ELSE {d} \cup UNION { IF t.kind[es[i]] = "file" THEN {es[i]}
                             ELSE IF t.kind[es[i]] = "dir" THEN Visited(t, es[i], bad)
                             ELSE {} : i \in 1..last }

FetchCalled == { calls[i].arg : i \in { j \in 1..Len(calls) : IsFetchCall(calls[j]) } }

\* C10: a blob error at entry i of a directory makes that directory's call
\* return the files of entries 1..i-1 and fetch nothing after i; an error
\* inside a subdirectory's call does not stop the parent's later entries.
C10_PrefixOnError ==
    FetchDone =>
        /\ repoFiles = PrefixFiles(tree, RootPath, FailedNodes)
        /\ FetchCalled = Visited(tree, RootPath, FailedNodes)

\* a blob error in a subdirectory after a collected file, with a later
\* sibling of that subdirectory still fetched
C10_Witness ==
    /\ FetchDone
    /\ \E f \in FilesOf(tree) :
        /\ f \in FailedNodes
        /\ tree.parent[f] # RootPath
        /\ \E g \in FilesOf(tree) :
            /\ g < f /\ tree.parent[g] = tree.parent[f]
            /\ Occurrences(repoFiles, RepoFile(g)) = 1
        /\ \E h \in FilesOf(tree) :
            /\ h > f /\ tree.parent[h] = RootPath
            /\ Occurrences(repoFiles, RepoFile(h)) = 1

\* directories whose getRepoFiles call caught an error (line 65)
FailedDirs == { errorLog[i] : i \in 1..Len(errorLog) }

\* C5: a subtree whose fetch raised an error contributes no files, and the
\* returned count is the number of files outside every such subtree.
C5_FailedSubtreeOmitted ==
    FetchDone =>
        /\ \A f \in FilesOf(tree) :
              Ancestors(tree, f) \cap FailedDirs # {}
                  => Occurrences(repoFiles, RepoFile(f)) = 0
        /\ Len(repoFiles) =
              Cardinality({ f \in FilesOf(tree) :
                              Ancestors(tree, f) \cap FailedDirs = {} })

\* ------------------------------------------------------------------ text
OpenTag == <<"<", "r", "e", "s", "p", "o", "n", "s", "e", ">">>
CloseTag == <<"<", "/", "r", "e", "s", "p", "o", "n", "s", "e", ">">>

\* String.prototype.indexOf: the 0-based index of the first occurrence, or -1
IndexOf(text, pat) ==
    LET hits == { i \in 0..(Len(text) - Len(pat)) :
                    SubSeq(text, i + 1, i + Len(pat)) = pat }
    IN IF hits = {} THEN -1 ELSE CHOOSE i \in hits : \A j \in hits : i <= j

\* String.prototype.slice(start, end): negative indices count from the end,
\* indices are clamped to the length, and an empty range gives ""
Slice(text, start, end) ==
    LET n == Len(text)
        from == IF start < 0 THEN (IF n + start < 0 THEN 0 ELSE n + start)
                ELSE (IF start > n THEN n ELSE start)
        to == IF end < 0 THEN (IF n + end < 0 THEN 0 ELSE n + end)
              ELSE (IF end > n THEN n ELSE end)
    IN IF from >= to THEN <<>> ELSE SubSeq(text, from + 1, to)

\* Mutant of ExtractXMLFromResponse: the guard tests only xmlEnd.
ExtractNoStartCheck(text) ==
    LET xmlStart == IndexOf(text, OpenTag)
        xmlEnd == IndexOf(text, CloseTag) + Len(CloseTag)
    IN IF xmlEnd = -1
       THEN [ok |-> FALSE, xml |-> <<>>]
       ELSE [ok |-> TRUE, xml |-> Slice(text, xmlStart, xmlEnd)]

\* lines 94-103; ok = FALSE is the throw at line 99
ExtractXMLFromResponse(text) ==
    LET xmlStart == IndexOf(text, OpenTag)
        xmlEnd == IndexOf(text, CloseTag) + Len(CloseTag)
    IN IF xmlStart = -1 \/ xmlEnd = -1
       THEN [ok |-> FALSE, xml |-> <<>>]
       ELSE [ok |-> TRUE, xml |-> Slice(text, xmlStart, xmlEnd)]

\* A reply is assembled from tokens: the two delimiters, a character of
\* other text, and two stand-ins, each a single symbol: "P" for a
\* well-formed <pullRequest> element with a title and a body, "F" for a
\* well-formed <files> element holding the reply's <file> elements.  A
\* stand-in counts as one character; the only cut that can fall inside one
\* is slice's end of 10 when the closing tag is absent, and what is cut
\* there has no closing tag and does not decode either way.
Tokens == {"O", "C", "x", "P", "F"}

TokenChars(tok) ==
    CASE tok = "O" -> OpenTag
      [] tok = "C" -> CloseTag
      [] OTHER -> <<tok>>

RECURSIVE Flatten(_)
Flatten(toks) ==
    IF toks = <<>> THEN <<>> ELSE TokenChars(Head(toks)) \o Flatten(Tail(toks))

SeqsUpTo(S, n) == UNION { [1..k -> S] : k \in 0..n }

Mentions(toks, tok) == \E i \in 1..Len(toks) : toks[i] = tok

\* (path, content) pairs a <file> element may carry
Edits == { [path |-> "a", content |-> "1"],
           [path |-> "a", content |-> "2"],
           [path |-> "b", content |-> "1"] }

\* pull-request titles a reply may carry
PRTitles == { <<"A", "d", "d", " ", "L", "o", "g">>,
              <<"f", "i", "x", ":", " ", "#", "2">> }

\* Whether parseStringPromise and the property accesses of lines 118-124
\* go through.  parseStringPromise rejects text that is not one well-formed
\* <response> element (an empty string resolves to null, whose .response
\* access throws); the accesses throw when <files> or <pullRequest> is
\* missing or when the first <files> has no <file> child.
Decodes(xml, fileElems) ==
    LET n == Len(xml)
        wrapped == /\ n >= Len(OpenTag) + Len(CloseTag)
                   /\ SubSeq(xml, 1, Len(OpenTag)) = OpenTag
                   /\ SubSeq(xml, n - Len(CloseTag) + 1, n) = CloseTag
        inner == SubSeq(xml, Len(OpenTag) + 1, n - Len(CloseTag))
    IN /\ wrapped
       /\ \A i \in 1..Len(inner) : inner[i] \in {"x", "P", "F"}
       /\ \E i \in 1..Len(inner) : inner[i] = "F"
       /\ \E i \in 1..Len(inner) : inner[i] = "P"
       /\ fileElems # <<>>

ParseFailure == [ok |-> FALSE, files |-> <<>>, pr |-> [title |-> <<>>, body |-> ""]]

\* Mutant of ParseModelResponse: edits are keyed by path, a later edit of a
\* path replacing the earlier one.
ParseKeyedByPath(xml, fileElems, title) ==
    LET keep == { i \in 1..Len(fileElems) :
                    \A j \in (i + 1)..Len(fileElems) :
                        fileElems[j].path # fileElems[i].path }
        idx == SortedSeq(keep)
    IN IF Decodes(xml, fileElems)
       THEN [ok |-> TRUE,
             files |-> [i \in 1..Len(idx) |-> fileElems[idx[i]]],
             pr |-> [title |-> title, body |-> "body"]]
       ELSE ParseFailure

\* lines 115-127; ok = FALSE is a rejected promise.  The <file> children of
\* the first <files> are mapped in document order (line 118); the first
\* <pullRequest> gives title and body (lines 123-124).
ParseModelResponse(xml, fileElems, title) ==
    IF Decodes(xml, fileElems)
    THEN [ok |-> TRUE,
          files |-> [i \in 1..Len(fileElems) |->
                       [path |-> fileElems[i].path,
                        content |-> fileElems[i].content]],
          pr |-> [title |-> title, body |-> "body"]]
    ELSE ParseFailure

\* ------------------------------------------------------------------ slug
LowerAlnum == {"a", "b", "c", "d", "e", "f", "g", "h", "i", "j", "k", "l", "m",
               "n", "o", "p", "q", "r", "s", "t", "u", "v", "w", "x", "y", "z",
               "0", "1", "2", "3", "4", "5", "6", "7", "8", "9"}

\* String.prototype.toLowerCase on one character
LowerChar(c) ==
    CASE c = "A" -> "a" [] c = "B" -> "b" [] c = "C" -> "c" [] c = "D" -> "d"
      [] c = "E" -> "e" [] c = "F" -> "f" [] c = "G" -> "g" [] c = "H" -> "h"
      [] c = "I" -> "i" [] c = "J" -> "j" [] c = "K" -> "k" [] c = "L" -> "l"
      [] c = "M" -> "m" [] c = "N" -> "n" [] c = "O" -> "o" [] c = "P" -> "p"
      [] c = "Q" -> "q" [] c = "R" -> "r" [] c = "S" -> "s" [] c = "T" -> "t"
      [] c = "U" -> "u" [] c = "V" -> "v" [] c = "W" -> "w" [] c = "X" -> "x"
      [] c = "Y" -> "y" [] c = "Z" -> "z"
      [] OTHER -> c

ToLowerCase(t) == [i \in 1..Len(t) |-> LowerChar(t[i])]

\* replace(/[^a-z0-9]+/g, '-'): every maximal run of characters outside
\* a-z and 0-9 becomes one hyphen
ReplaceRuns(t) ==
    LET F[i \in 0..Len(t)] ==
            IF i = 0 THEN <<>>
            ELSE IF t[i] \in LowerAlnum THEN Append(F[i - 1], t[i])
            ELSE IF i > 1 /\ t[i - 1] \notin LowerAlnum THEN F[i - 1]
            ELSE Append(F[i - 1], "-")
    IN F[Len(t)]

\* Mutant of Slug: the rule also puts the branch prefix in front.
SlugWithPrefix(title) ==
    <<"f", "e", "a", "t", "u", "r", "e", "/">> \o ReplaceRuns(ToLowerCase(title))

\* line 178: pr.title.toLowerCase().replace(/[^a-z0-9]+/g, '-')
Slug(title) == ReplaceRuns(ToLowerCase(title))

\* line 178: the whole branch name
BranchName(title, now) ==
    <<"f", "e", "a", "t", "u", "r", "e", "/">> \o Slug(title) \o <<"-", ToString(now)>>

EmptyResult == [ok |-> FALSE, xml |-> <<>>]

\* --------------------------------------------------------- createAutomatedPR
ExtractError == "Could not find valid XML in model response"
ParseError == "parse"

\* Mutant of Catch: the error is logged and the failed statement is run again.
CatchAndRetry(msg) ==
    /\ pc' = pc
    /\ errorMsg' = msg

\* lines 221-226: the one catch of createAutomatedPR; the run ends
Catch(msg) ==
    /\ pc' = "failed"
    /\ errorMsg' = msg

\* Mutant of StepAfter: the pull request is opened before the files are
\* written.
StepAfterPRFirst(step, k) ==
    CASE step = "repos.get" -> "git.getRef"
      [] step = "git.getRef" -> "git.createRef"
      [] step = "git.createRef" -> "pulls.create"
      [] step = "pulls.create" -> IF k = 0 THEN "issues.createComment" ELSE "write"
      [] step = "write" -> "issues.createComment"
      [] step = "issues.createComment" -> "done"

\* the statement that follows a completed step, k being the number of edits
\* (lines 172-218 in program order)
StepAfter(step, k) ==
    CASE step = "repos.get" -> "git.getRef"
      [] step = "git.getRef" -> "git.createRef"
      [] step = "git.createRef" -> IF k = 0 THEN "pulls.create" ELSE "write"
      [] step = "write" -> "pulls.create"
      [] step = "pulls.create" -> "issues.createComment"
      [] step = "issues.createComment" -> "done"

\* line 199: Buffer.from(content).toString("base64")
Base64(content) == <<"base64", content>>

\* lines 194-201: the arguments of one createOrUpdateFileContents call
WriteArgs(file, branch) ==
    [path |-> file.path,
     message |-> <<"Update ", file.path>>,
     content |-> Base64(file.content),
     branch |-> branch]

\* line 137: the prompt resolves with the user's line (it never rejects)
GetUserRequirements ==
    /\ pc = "prompt"
    /\ pc' = "generateText"
    /\ UNCHANGED <<fetchVars, calls, replyVars, parseVars, pubVars, errorMsg,
                   slugVars>>

\* lines 139-167
GenerateText ==
    /\ pc = "generateText"
    /\ \/ /\ \E toks \in SeqsUpTo(Tokens, MaxTokens) :
               /\ rawResponse' = Flatten(toks)
               /\ respFiles' \in (IF Mentions(toks, "F")
                                  THEN SeqsUpTo(Edits, MaxEdits) ELSE {<<>>})
               /\ respTitle' \in (IF Mentions(toks, "P") THEN PRTitles ELSE {<<>>})
          /\ calls' = Append(calls, Call("generateText", "prompt", TRUE))
          /\ pc' = "extract"
          /\ UNCHANGED errorMsg
       \/ /\ calls' = Append(calls, Call("generateText", "prompt", FALSE))
          /\ Catch("generateText")
          /\ UNCHANGED replyVars
    /\ UNCHANGED <<fetchVars, parseVars, pubVars, slugVars>>

\* line 169
ExtractStep ==
    /\ pc = "extract"
    /\ extracted' = ExtractXMLFromResponse(rawResponse)
    /\ IF extracted'.ok
       THEN pc' = "parse" /\ UNCHANGED errorMsg
       ELSE Catch(ExtractError)
    /\ UNCHANGED <<fetchVars, calls, replyVars, files, pr, pubVars, slugVars>>

\* line 170
ParseStep ==
    /\ pc = "parse"
    /\ LET r == ParseModelResponse(extracted.xml, respFiles, respTitle)
       IN IF r.ok
          THEN /\ files' = r.files
               /\ pr' = r.pr
               /\ pc' = "repos.get"
               /\ UNCHANGED errorMsg
          ELSE /\ Catch(ParseError)
               /\ UNCHANGED <<files, pr>>
    /\ UNCHANGED <<fetchVars, calls, replyVars, extracted, pubVars, slugVars>>

\* lines 172-178: repository metadata, then the branch name
RepoGet ==
    /\ pc = "repos.get"
    /\ \/ /\ calls' = Append(calls, Call("repos.get", "repo", TRUE))
          /\ \E now \in 1..MaxClock : newBranch' = BranchName(pr.title, now)
          /\ pc' = StepAfter("repos.get", Len(files))
          /\ UNCHANGED errorMsg
       \/ /\ calls' = Append(calls, Call("repos.get", "repo", FALSE))
          /\ Catch("repos.get")
          /\ UNCHANGED newBranch
    /\ UNCHANGED <<fetchVars, replyVars, parseVars, wi, slugVars>>

\* lines 180-184
GetRef ==
    /\ pc = "git.getRef"
    /\ \E ok \in BOOLEAN :
        /\ calls' = Append(calls, Call("git.getRef", "heads/main", ok))
        /\ IF ok THEN pc' = StepAfter("git.getRef", Len(files)) /\ UNCHANGED errorMsg
           ELSE Catch("git.getRef")
    /\ UNCHANGED <<fetchVars, replyVars, parseVars, pubVars, slugVars>>

\* lines 186-191
CreateRef ==
    /\ pc = "git.createRef"
    /\ \E ok \in BOOLEAN :
        /\ calls' = Append(calls, Call("git.createRef", newBranch, ok))
        /\ IF ok THEN pc' = StepAfter("git.createRef", Len(files)) /\ UNCHANGED errorMsg
           ELSE Catch("git.createRef")
    /\ UNCHANGED <<fetchVars, replyVars, parseVars, pubVars, slugVars>>

\* lines 193-202: one iteration of the write loop
WriteFile ==
    /\ pc = "write"
    /\ wi <= Len(files)
    /\ \E ok \in BOOLEAN :
        /\ calls' = Append(calls, Call("repos.createOrUpdateFileContents",
                                       WriteArgs(files[wi], newBranch), ok))
        /\ IF ok
           THEN /\ wi' = wi + 1
                /\ pc' = IF wi = Len(files) THEN StepAfter("write", Len(files)) ELSE "write"
                /\ UNCHANGED errorMsg
           ELSE /\ Catch("repos.createOrUpdateFileContents")
                /\ UNCHANGED wi
    /\ UNCHANGED <<fetchVars, replyVars, parseVars, newBranch, slugVars>>

\* lines 204-211
CreatePR ==
    /\ pc = "pulls.create"
    /\ \E ok \in BOOLEAN :
        /\ calls' = Append(calls, Call("pulls.create",
                                       [title |-> pr.title, body |-> pr.body,
                                        head |-> newBranch, base |-> "main"], ok))
        /\ IF ok THEN pc' = StepAfter("pulls.create", Len(files)) /\ UNCHANGED errorMsg
           ELSE Catch("pulls.create")
    /\ UNCHANGED <<fetchVars, replyVars, parseVars, pubVars, slugVars>>

\* lines 213-218
CreateComment ==
    /\ pc = "issues.createComment"
    /\ \E ok \in BOOLEAN :
        /\ calls' = Append(calls, Call("issues.createComment",
                                       [i \in 1..Len(files) |-> files[i].path], ok))
        /\ IF ok THEN pc' = StepAfter("issues.createComment", Len(files))
                      /\ UNCHANGED errorMsg
           ELSE Catch("issues.createComment")
    /\ UNCHANGED <<fetchVars, replyVars, parseVars, pubVars, slugVars>>

\* ---------------------------------------------------------- specifications
InitCommon ==
    /\ stack = << [path |-> RootPath, pos |-> 0, files |-> <<>>] >>
    /\ repoFiles = <<>>
    /\ errorLog = <<>>
    /\ calls = <<>>
    /\ rawResponse = <<>>
    /\ respFiles = <<>>
    /\ respTitle = <<>>
    /\ extracted = EmptyResult
    /\ files = <<>>
    /\ newBranch = <<>>
    /\ wi = 1
    /\ errorMsg = ""
    /\ slug1 = <<>>
    /\ slug2 = <<>>

\* getRepoFiles("") on every tree of up to MaxNodes entries
InitFetch ==
    /\ InitCommon
    /\ tree \in UNION { TreesOfSize(n) : n \in 0..MaxNodes }
    /\ pr = [title |-> <<>>, body |-> ""]
    /\ pc = "fetch"

NextFetch ==
    \/ ListDirOk
    \/ ListDirFail
    \/ BlobOk
    \/ BlobFail
    \/ EnterDir
    \/ SkipOther
    \/ LoopDone

SpecFetch == InitFetch /\ [][NextFetch]_vars

\* createAutomatedPR, line 129 on, against a repository of at most one entry
Init ==
    /\ InitCommon
    /\ tree \in TreesOfSize(0) \cup TreesOfSize(1)
    /\ pr = [title |-> <<>>, body |-> ""]
    /\ pc = "fetch"

Next ==
    \/ ListDirOk
    \/ ListDirFail
    \/ BlobOk
    \/ BlobFail
    \/ EnterDir
    \/ SkipOther
    \/ LoopDone
    \/ GetUserRequirements
    \/ GenerateText
    \/ ExtractStep
    \/ ParseStep
    \/ RepoGet
    \/ GetRef
    \/ CreateRef
    \/ WriteFile
    \/ CreatePR
    \/ CreateComment

Spec == Init /\ [][Next]_vars

\* the slug rule of line 178 applied to a title, then to its own result
TitleChars == {"A", "b", "7", "-", " ", "_"}

InitSlug ==
    /\ InitCommon
    /\ tree = [n |-> 0, kind |-> <<>>, parent |-> <<>>]
    /\ pr \in { [title |-> t, body |-> ""] : t \in SeqsUpTo(TitleChars, MaxTitleLen) }
    /\ pc = "slug"

SlugOnce ==
    /\ pc = "slug"
    /\ slug1' = Slug(pr.title)
    /\ pc' = "slug again"
    /\ UNCHANGED <<fetchVars, calls, replyVars, parseVars, pubVars, errorMsg, slug2>>

SlugTwice ==
    /\ pc = "slug again"
    /\ slug2' = Slug(slug1)
    /\ pc' = "slugged"
    /\ UNCHANGED <<fetchVars, calls, replyVars, parseVars, pubVars, errorMsg, slug1>>

NextSlug ==
    \/ SlugOnce
    \/ SlugTwice

SpecSlug == InitSlug /\ [][NextSlug]_vars

\* ------------------------------------------- pipeline: claims C1-C4, C7, C8
IsHostWrite(c) == c.op \in {"git.createRef", "repos.createOrUpdateFileContents",
                            "pulls.create", "issues.createComment"}
IsPublisherCall(c) == c.op \in {"repos.get", "git.getRef"} \/ IsHostWrite(c)
IsWrite(c) == c.op = "repos.createOrUpdateFileContents"
IsPipelineCall(c) == ~IsFetchCall(c)

HostWrites == SelectSeq(calls, IsHostWrite)
PublisherCalls == SelectSeq(calls, IsPublisherCall)
Writes == SelectSeq(calls, IsWrite)
PipelineCalls == SelectSeq(calls, IsPipelineCall)

\* line 169 has run on a reply that generateText returned
ExtractDone ==
    /\ pc \notin {"fetch", "prompt", "generateText", "extract", "slug",
                  "slug again", "slugged"}
    /\ errorMsg # "generateText"

ExtractFailed == ExtractDone /\ ~extracted.ok

ParseFailed ==
    /\ ExtractDone /\ pc # "parse" /\ extracted.ok
    /\ ~ParseModelResponse(extracted.xml, respFiles, respTitle).ok

Contains(text, pat) == IndexOf(text, pat) # -1

\* C1: a reply without <response>, and any failure of extractXMLFromResponse
\* or parseModelResponse, ends the run in failure with no host write call
\* (createRef, createOrUpdateFileContents, pulls.create, createComment).
C1_NoWriteOnParseFailure ==
    /\ (ExtractDone /\ ~Contains(rawResponse, OpenTag)) => ExtractFailed
    /\ (ExtractFailed \/ ParseFailed) =>
          /\ pc = "failed"
          /\ HostWrites = <<>>
          /\ ~ENABLED Next

\* a reply with a closing tag, a <files> element and no opening tag, refused
C1_Witness ==
    /\ ExtractFailed
    /\ ~Contains(rawResponse, OpenTag)
    /\ Contains(rawResponse, CloseTag)
    /\ Contains(rawResponse, <<"F">>)

\* the publisher's calls in program order for k edits
PublisherOrder(k) ==
    <<"repos.get", "git.getRef", "git.createRef">>
    \o [i \in 1..k |-> "repos.createOrUpdateFileContents"]
    \o <<"pulls.create", "issues.createComment">>

\* C2: the publisher's calls are issued in the order repos.get, getRef,
\* createRef, one write per edit, pulls.create, createComment, nothing after
\* a failed one; so the pull request follows the branch and every write,
\* and the comment follows the pull request.
C2_PublisherOrder ==
    LET P == PublisherCalls
    IN /\ IsPrefix([i \in 1..Len(P) |-> P[i].op], PublisherOrder(Len(files)))
       /\ \A i \in 1..(Len(P) - 1) : P[i].ok
       /\ \A i \in 1..Len(P) :
            P[i].op = "pulls.create" =>
               /\ \E j \in 1..(i - 1) : P[j].op = "git.createRef" /\ P[j].ok
               /\ Cardinality({ j \in 1..(i - 1) : IsWrite(P[j]) /\ P[j].ok })
                     = Len(files)
       /\ \A i \in 1..Len(P) :
            P[i].op = "issues.createComment" =>
               \E j \in 1..(i - 1) : P[j].op = "pulls.create" /\ P[j].ok

\* a run that published two edits and commented
C2_Witness ==
    /\ pc = "done"
    /\ Len(files) = 2
    /\ Len(PublisherCalls) = 7

\* C3: extractXMLFromResponse throws whenever <response> or </response> is
\* absent from the text.
C3_ThrowsWhenDelimiterAbsent ==
    (ExtractDone /\ (~Contains(rawResponse, OpenTag) \/ ~Contains(rawResponse, CloseTag)))
        => ~extracted.ok

\* the 0-based index of the first occurrence at or after from, or -1
IndexOfFrom(text, pat, from) ==
    LET hits == { i \in from..(Len(text) - Len(pat)) :
                    SubSeq(text, i + 1, i + Len(pat)) = pat }
    IN IF hits = {} THEN -1 ELSE CHOOSE i \in hits : \A j \in hits : i <= j

\* the text from the first <response> to the end of the first </response>
\* after it
FirstBlock(text) ==
    LET s == IndexOf(text, OpenTag)
        e == IndexOfFrom(text, CloseTag, s + Len(OpenTag))
    IN SubSeq(text, s + 1, e + Len(CloseTag))

HasBlock(text) ==
    /\ Contains(text, OpenTag)
    /\ IndexOfFrom(text, CloseTag, IndexOf(text, OpenTag) + Len(OpenTag)) # -1

\* C4: when the text holds <response> followed later by </response>, the
\* result is the text from the first <response> to the end of the first
\* </response> after it, whatever precedes the opening tag.
C4_ExtractsFirstBlock ==
    (ExtractDone /\ HasBlock(rawResponse))
        => /\ extracted.ok
           /\ extracted.xml = FirstBlock(rawResponse)

\* C7: the writes issued are those of the reply's edits, in document order,
\* one per edit and all on the new branch; once the loop is through there
\* are exactly K of them, equal paths included.
C7_WritesInDocumentOrder ==
    /\ Len(Writes) <= Len(respFiles)
    /\ \A j \in 1..Len(Writes) : Writes[j].arg = WriteArgs(respFiles[j], newBranch)
    /\ \A j \in 1..(Len(Writes) - 1) : Writes[j].ok
    /\ (\E i \in 1..Len(calls) : calls[i].op = "pulls.create")
          => /\ Len(Writes) = Len(respFiles)
             /\ \A j \in 1..Len(Writes) : Writes[j].ok
    /\ \A i \in 1..Len(calls) :
          calls[i].op = "git.createRef" => calls[i].arg = newBranch

\* a finished run whose two edits name the same path with different content
C7_Witness ==
    /\ pc = "done"
    /\ Len(respFiles) = 2
    /\ respFiles[1].path = respFiles[2].path
    /\ respFiles[1].content # respFiles[2].content
    /\ Len(Writes) = 2
    /\ Writes[2].arg.content = Base64(respFiles[2].content)
    /\ Writes[2].arg.path = Writes[1].arg.path

OpCount(op) == Cardinality({ i \in 1..Len(calls) : calls[i].op = op })

\* C8: an error outside the fetch phase is caught once and ends the run: a
\* failed call is the last call, the run is in its failed state and no step
\* is enabled there; every operation is attempted at most once (a write,
\* once per edit).
C8_ErrorsAreTerminal ==
    LET Q == PipelineCalls
    IN /\ \A i \in 1..(Len(Q) - 1) : Q[i].ok
       /\ (Q # <<>> /\ ~Q[Len(Q)].ok) => (pc = "failed" /\ errorMsg = Q[Len(Q)].op)
       /\ errorMsg # "" => pc = "failed"
       /\ (ExtractFailed \/ ParseFailed) => errorMsg \in {ExtractError, ParseError}
       /\ pc = "failed" => ~ENABLED Next
       /\ \A op \in {"generateText", "repos.get", "git.getRef", "git.createRef",
                     "pulls.create", "issues.createComment"} : OpCount(op) <= 1
       /\ Len(Writes) <= Len(files)
       /\ \A j \in 1..Len(Writes) : Writes[j].arg = WriteArgs(files[j], newBranch)

\* the second write of a run failed after the first succeeded
C8_Witness ==
    /\ pc = "failed"
    /\ errorMsg = "repos.createOrUpdateFileContents"
    /\ Len(Writes) = 2
    /\ Writes[1].ok /\ ~Writes[2].ok

\* --------------------------------------------------------------- slug: C9
\* C9: the slug rule applied twice gives what it gives applied once.
C9_SlugIdempotent == pc = "slugged" => slug2 = slug1

\* a title with an upper-case letter and a run of two characters outside
\* a-z0-9, slugged twice
C9_Witness ==
    /\ pc = "slugged"
    /\ \E i \in 1..Len(pr.title) : pr.title[i] = "A"
    /\ \E i \in 1..(Len(pr.title) - 1) :
          pr.title[i] \notin LowerAlnum \cup {"A"} /\ pr.title[i + 1] \notin LowerAlnum \cup {"A"}
    /\ Len(slug1) = Len(pr.title) - 1

====
